---- MODULE Spec2Model ----
(***************************************************************************)
(* Model of setup.py of pymacaron-gcp: the module-level version            *)
(* resolution (command line, then PKG-INFO), followed by the README read   *)
(* and the setup() call.                                                   *)
(*                                                                         *)
(* Python strings are sequences of one-character strings, so that          *)
(* str.strip, str.split(' '), the substring test and file.readlines are    *)
(* computed character by character.  None is a value no string equals.     *)
(*                                                                         *)
(* Environment: README.md is a tracked file of the repository and sits     *)
(* next to setup.py, so the open() of line 36 succeeds; PKG-INFO is        *)
(* generated and may or may not exist (the script tests for it).           *)
(* setuptools.setup() is external: the model records the call.             *)
(***************************************************************************)
EXTENDS Integers, Sequences, FiniteSets, TLC

VARIABLES
    argv,         \* sys.argv
    argv0,        \* sys.argv as it was on entry (history)
    version,      \* module global 'version'
    pc,           \* position of the script: the next line to run
    pkgExists,    \* os.path.isfile(path_pkg_info)
    pkgInfo,      \* content of PKG-INFO (a string), meaningful if pkgExists
    lines,        \* the lines of f.readlines() not yet iterated over
    exc,          \* the exception that ended the script, or NoExc
    stdout,       \* what print() wrote, in order
    readmeRead,   \* long_description has been read from README.md
    setupCalls,   \* number of calls of setup()
    setupVersion, \* the version= argument of the setup() call
    setupArgv     \* sys.argv at the time setup() was called

vars == <<argv, argv0, version, pc, pkgExists, pkgInfo, lines, exc, stdout,
          readmeRead, setupCalls, setupVersion, setupArgv>>

(***************************************************************************)
(* Bounds                                                                  *)
(***************************************************************************)
MaxArgs == 3      \* arguments after the script name
MaxLines == 2     \* lines of PKG-INFO

(***************************************************************************)
(* String literals                                                         *)
(***************************************************************************)
None == <<"<None>">>
EmptyStr == <<>>
ScriptName == <<"s","e","t","u","p",".","p","y">>
sdist == <<"s","d","i","s","t">>
OptVersion == <<"-","-","v","e","r","s","i","o","n">>
WordVersion == <<"V","e","r","s","i","o","n">>
Space == " "
Newline == "\n"

MissingVersion ==
    [type |-> "Exception", msg |-> "Please set a version with --version x.y.z"]
IndexError == [type |-> "IndexError", msg |-> "list index out of range"]
ValueErrorMany ==
    [type |-> "ValueError", msg |-> "too many values to unpack (expected 2)"]
ValueErrorFew ==
    [type |-> "ValueError", msg |-> "not enough values to unpack"]
NoExc == [type |-> "none", msg |-> ""]

WarningMsg == "WARNING: cannot set version in custom setup.py"
VersionFmt == "version: %s"

(***************************************************************************)
(* Inputs                                                                  *)
(***************************************************************************)
V10 == <<"1",".","0">>
V10Padded == <<" ","1",".","0","\n">>
Blank == <<" ">>
build == <<"b","u","i","l","d">>

ArgTokens == {sdist, OptVersion, V10, V10Padded, Blank, EmptyStr, build}

LineVersion == <<"V","e","r","s","i","o","n",":"," ","1",".","0","\n">>
LineMetadata ==
    <<"M","e","t","a","d","a","t","a","-","V","e","r","s","i","o","n",":",
      " ","2",".","1","\n">>
LineName == <<"N","a","m","e",":"," ","x","\n">>
LineHistory ==
    <<"V","e","r","s","i","o","n"," ","h","i","s","t","o","r","y",":",
      " ","s","e","e","\n">>
LineBare == <<"V","e","r","s","i","o","n","\n">>

PkgLines == {LineVersion, LineMetadata, LineName, LineHistory, LineBare}

SeqsUpTo(S, n) == UNION {[1..k -> S] : k \in 0..n}

RECURSIVE Concat(_)
Concat(ss) == IF ss = <<>> THEN <<>> ELSE Head(ss) \o Concat(Tail(ss))

(***************************************************************************)
(* Python built-ins used by the script                                     *)
(***************************************************************************)
\* a truth test that sees only None as false
TruthyNoneOnly(v) == v # None

\* truth value of 'version': None and '' are false
Truthy(v) == v # None /\ v # EmptyStr

\* x in list
In(x, list) == \E i \in DOMAIN list : list[i] = x

\* list.pop(): the list without its last element
Pop(list) == SubSeq(list, 1, Len(list) - 1)

\* sub in s, for strings
Contains(sub, s) ==
    \E i \in 1..(Len(s) - Len(sub) + 1) : SubSeq(s, i, i + Len(sub) - 1) = sub

IsSpace(c) == c \in {" ", "\n", "\t", "\r"}

RECURSIVE LStrip(_)
LStrip(s) == IF s # <<>> /\ IsSpace(Head(s)) THEN LStrip(Tail(s)) ELSE s

RECURSIVE RStrip(_)
RStrip(s) ==
    IF s # <<>> /\ IsSpace(s[Len(s)]) THEN RStrip(SubSeq(s, 1, Len(s) - 1))
    ELSE s

\* a strip that leaves whitespace at the end
StripLeftOnly(s) == LStrip(s)

\* str.strip()
Strip(s) == RStrip(LStrip(s))

\* s.split(sep) for a one-character separator: every occurrence separates,
\* so consecutive separators give empty fields
RECURSIVE SplitFrom(_, _, _)
SplitFrom(s, sep, cur) ==
    IF s = <<>> THEN <<cur>>
    ELSE IF Head(s) = sep THEN <<cur>> \o SplitFrom(Tail(s), sep, <<>>)
    ELSE SplitFrom(Tail(s), sep, Append(cur, Head(s)))

Split(s, sep) == SplitFrom(s, sep, <<>>)

\* f.readlines(): the lines of the file, each with its newline kept
RECURSIVE ReadLinesFrom(_, _)
ReadLinesFrom(s, cur) ==
    IF s = <<>> THEN (IF cur = <<>> THEN <<>> ELSE <<cur>>)
    ELSE IF Head(s) = Newline
         THEN <<Append(cur, Newline)>> \o ReadLinesFrom(Tail(s), <<>>)
    ELSE ReadLinesFrom(Tail(s), Append(cur, Head(s)))

ReadLines(s) == ReadLinesFrom(s, <<>>)

(***************************************************************************)
(* The script                                                              *)
(***************************************************************************)
Init ==
    /\ \E args \in SeqsUpTo(ArgTokens, MaxArgs) : argv = <<ScriptName>> \o args
    /\ argv0 = argv
    /\ version = None
    /\ pc = "l9"
    /\ pkgExists \in BOOLEAN
    /\ \E ls \in SeqsUpTo(PkgLines, MaxLines) :
          pkgInfo = IF pkgExists THEN Concat(ls) ELSE <<>>
    /\ lines = <<>>
    /\ exc = NoExc
    /\ stdout = <<>>
    /\ readmeRead = FALSE
    /\ setupCalls = 0
    /\ setupVersion = None
    /\ setupArgv = <<>>

Raise(e) ==
    /\ exc' = e
    /\ pc' = "raised"

\* the test of line 9, for a list of at least two elements
VersionOnCmdline(a) == a[Len(a) - 1] = OptVersion /\ In(sdist, a)

\* lines 9-12
ParseArgv ==
    /\ pc = "l9"
    /\ IF Len(argv) < 2
       THEN /\ Raise(IndexError)
            /\ UNCHANGED <<argv, version>>
       ELSE /\ IF VersionOnCmdline(argv)
               THEN /\ version' = argv[Len(argv)]
                    /\ argv' = Pop(Pop(argv))
               ELSE UNCHANGED <<argv, version>>
            /\ pc' = "l14"
            /\ UNCHANGED exc
    /\ UNCHANGED <<argv0, pkgExists, pkgInfo, lines, stdout, readmeRead,
                   setupCalls, setupVersion, setupArgv>>

\* lines 14-15
RequireVersion ==
    /\ pc = "l14"
    /\ IF In(sdist, argv) /\ ~Truthy(version)
       THEN Raise(MissingVersion)
       ELSE pc' = "l17" /\ UNCHANGED exc
    /\ UNCHANGED <<argv, argv0, version, pkgExists, pkgInfo, lines, stdout,
                   readmeRead, setupCalls, setupVersion, setupArgv>>

\* lines 17-23 and 27-28
LookupPkgInfo ==
    /\ pc = "l17"
    /\ IF ~Truthy(version)
       THEN IF In(sdist, argv)
            THEN /\ Raise(MissingVersion)
                 /\ UNCHANGED <<lines, stdout>>
            ELSE IF pkgExists
                 THEN /\ lines' = ReadLines(pkgInfo)
                      /\ pc' = "l24"
                      /\ UNCHANGED <<exc, stdout>>
                 ELSE /\ stdout' = Append(stdout, [fmt |-> WarningMsg, arg |-> None])
                      /\ pc' = "l30"
                      /\ UNCHANGED <<exc, lines>>
       ELSE /\ pc' = "l30"
            /\ UNCHANGED <<exc, lines, stdout>>
    /\ UNCHANGED <<argv, argv0, version, pkgExists, pkgInfo, readmeRead,
                   setupCalls, setupVersion, setupArgv>>

\* lines 24-26: one iteration of the loop over the lines of PKG-INFO
ScanLine ==
    /\ pc = "l24"
    /\ lines # <<>>
    /\ LET l == Head(lines)
           parts == Split(l, Space)
       IN IF Contains(WordVersion, l)
          THEN IF Len(parts) = 2
               THEN /\ version' = parts[2]
                    /\ lines' = Tail(lines)
                    /\ UNCHANGED <<pc, exc>>
               ELSE /\ Raise(IF Len(parts) > 2 THEN ValueErrorMany
                             ELSE ValueErrorFew)
                    /\ lines' = <<>>
                    /\ UNCHANGED version
          ELSE /\ lines' = Tail(lines)
               /\ UNCHANGED <<version, pc, exc>>
    /\ UNCHANGED <<argv, argv0, pkgExists, pkgInfo, stdout, readmeRead,
                   setupCalls, setupVersion, setupArgv>>

\* line 24: the loop is exhausted
ScanDone ==
    /\ pc = "l24"
    /\ lines = <<>>
    /\ pc' = "l30"
    /\ UNCHANGED <<argv, argv0, version, pkgExists, pkgInfo, lines, exc,
                   stdout, readmeRead, setupCalls, setupVersion, setupArgv>>

\* lines 30-32
StripVersion ==
    /\ pc = "l30"
    /\ LET v == IF Truthy(version) THEN Strip(version) ELSE version
       IN /\ version' = v
          /\ stdout' = Append(stdout, [fmt |-> VersionFmt, arg |-> v])
    /\ pc' = "l35"
    /\ UNCHANGED <<argv, argv0, pkgExists, pkgInfo, lines, exc, readmeRead,
                   setupCalls, setupVersion, setupArgv>>

\* lines 35-37
ReadReadme ==
    /\ pc = "l35"
    /\ readmeRead' = TRUE
    /\ pc' = "l39"
    /\ UNCHANGED <<argv, argv0, version, pkgExists, pkgInfo, lines, exc,
                   stdout, setupCalls, setupVersion, setupArgv>>

\* lines 39-69
CallSetup ==
    /\ pc = "l39"
    /\ setupCalls' = setupCalls + 1
    /\ setupVersion' = version
    /\ setupArgv' = argv
    /\ pc' = "done"
    /\ UNCHANGED <<argv, argv0, version, pkgExists, pkgInfo, lines, exc,
                   stdout, readmeRead>>

Next ==
    \/ ParseArgv
    \/ RequireVersion
    \/ LookupPkgInfo
    \/ ScanLine
    \/ ScanDone
    \/ StripVersion
    \/ ReadReadme
    \/ CallSetup

Spec == Init /\ [][Next]_vars

(***************************************************************************)
(* Vocabulary of the properties                                            *)
(***************************************************************************)
Last(a) == a[Len(a)]

\* the list ends with '--version', v for a non-empty v
EndsWithVersionValue(a) ==
    Len(a) >= 2 /\ a[Len(a) - 1] = OptVersion /\ Last(a) # EmptyStr

\* r is v without its surrounding whitespace
IsStripOf(r, v) ==
    \E i \in 1..(Len(v) + 1) : \E j \in 0..Len(v) :
        /\ i <= j + 1
        /\ r = SubSeq(v, i, j)
        /\ \A k \in 1..(i - 1) : IsSpace(v[k])
        /\ \A k \in (j + 1)..Len(v) : IsSpace(v[k])
        /\ r # <<>> => ~IsSpace(r[1]) /\ ~IsSpace(r[Len(r)])

VersionPrefix == <<"V","e","r","s","i","o","n",":"," ">>

\* l is a line 'Version: X'
IsVersionLine(l) ==
    Len(l) >= Len(VersionPrefix) /\ SubSeq(l, 1, Len(VersionPrefix)) = VersionPrefix

\* the X of a line 'Version: X'
VersionLineValue(l) == SubSeq(l, Len(VersionPrefix) + 1, Len(l))

\* the values X of the lines 'Version: X' of PKG-INFO
PkgInfoVersions ==
    {VersionLineValue(ReadLines(pkgInfo)[i]) :
        i \in {k \in DOMAIN ReadLines(pkgInfo) : IsVersionLine(ReadLines(pkgInfo)[k])}}

Warned == \E i \in DOMAIN stdout : stdout[i].fmt = WarningMsg

(***************************************************************************)
(* C1: when the arguments contain 'sdist' and do not end with              *)
(* '--version', <non-empty value>, the script raises "Please set a version *)
(* with --version x.y.z"; it never gets past line 15, so README.md is not  *)
(* read and setup() is not called on that run.                             *)
(***************************************************************************)
C1_MissingVersionRaises ==
    (In(sdist, argv0) /\ ~EndsWithVersionValue(argv0)) =>
        /\ pc \in {"l9", "l14", "raised"}
        /\ pc = "raised" => exc = MissingVersion
        /\ ~readmeRead
        /\ setupCalls = 0

\* the run ended with the exception although '--version' was given, with ''
C1_Witness ==
    /\ In(sdist, argv0)
    /\ Len(argv0) >= 2 /\ argv0[Len(argv0) - 1] = OptVersion
    /\ Last(argv0) = EmptyStr
    /\ pc = "raised"
    /\ exc = MissingVersion

(***************************************************************************)
(* C2: when the arguments contain 'sdist' and end with '--version', v (v   *)
(* non-empty), the script does not raise, setup() is called once, with     *)
(* version v stripped of its surrounding whitespace, and sys.argv is then  *)
(* the original list without its last two elements.                        *)
(***************************************************************************)
C2_VersionFromCmdline ==
    (In(sdist, argv0) /\ EndsWithVersionValue(argv0)) =>
        /\ pc # "raised"
        /\ setupCalls <= 1
        /\ pc = "done" =>
              /\ setupCalls = 1
              /\ IsStripOf(setupVersion, Last(argv0))
              /\ setupArgv = SubSeq(argv0, 1, Len(argv0) - 2)

\* setup() was called for a value that had whitespace around it
C2_Witness ==
    /\ In(sdist, argv0)
    /\ EndsWithVersionValue(argv0)
    /\ Last(argv0) = V10Padded
    /\ pc = "done"
    /\ setupVersion = V10
    /\ Len(setupArgv) = Len(argv0) - 2

(***************************************************************************)
(* C3: the only exception that ends version resolution is "Please set a    *)
(* version with --version x.y.z", for every argument list and every        *)
(* PKG-INFO.                                                               *)
(***************************************************************************)
C3_OnlyMissingVersionRaised ==
    pc = "raised" => exc = MissingVersion

(***************************************************************************)
(* C4: without 'sdist' in the arguments and with a PKG-INFO that has a     *)
(* line 'Version: X', setup() is called with X stripped, whatever the      *)
(* other lines are.                                                        *)
(***************************************************************************)
C4_VersionFromPkgInfo ==
    (~In(sdist, argv0) /\ pkgExists /\ setupCalls > 0) =>
        \A X \in PkgInfoVersions : IsStripOf(setupVersion, X)

(***************************************************************************)
(* C8: with 'sdist' in the arguments on entry, the version given to        *)
(* setup() is a non-empty string without leading or trailing whitespace.   *)
(***************************************************************************)
C8_SdistVersionUsable ==
    (In(sdist, argv0) /\ setupCalls > 0) =>
        /\ setupVersion # None
        /\ setupVersion # EmptyStr
        /\ ~IsSpace(setupVersion[1])
        /\ ~IsSpace(Last(setupVersion))

(***************************************************************************)
(* C9: whenever lines 9-12 took the version from the command line, 'sdist' *)
(* is still an element of sys.argv after the two pops.                     *)
(***************************************************************************)
C9_SdistSurvives ==
    (pc # "l9" /\ Len(argv) = Len(argv0) - 2) => In(sdist, argv)

(***************************************************************************)
(* C10: for at least two arguments without 'sdist', the script does not    *)
(* raise for a missing version, and when setup() is called sys.argv is     *)
(* the list of entry, the version is the value of PKG-INFO's 'Version: X'  *)
(* line if the file exists, and otherwise None with the warning printed.   *)
(***************************************************************************)
C10_NoSdistUntouched ==
    (~In(sdist, argv0) /\ Len(argv0) >= 2) =>
        /\ exc # MissingVersion
        /\ setupCalls > 0 =>
              /\ setupArgv = argv0
              /\ pkgExists =>
                    \A X \in PkgInfoVersions : IsStripOf(setupVersion, X)
              /\ ~pkgExists => setupVersion = None /\ Warned

====
